---- MODULE Spec2Model ----
(***************************************************************************)
(* cliff: a CloudFormation stack diff tool.                                *)
(*                                                                         *)
(* One run of `run` (src/src/main.rs): read the local template, fetch the  *)
(* current template (retried), diff the two texts, create the changeset    *)
(* (retried), poll describe-changeset until the status is no longer in     *)
(* flight, render the changes, delete the changeset.                       *)
(*                                                                         *)
(* Every remote call is two steps, the request and its response, so that   *)
(* an outstanding call is a state of the model.  Strings that the code     *)
(* inspects by suffix are sequences of their "_"-separated words:          *)
(* "CREATE_IN_PROGRESS" is <<"CREATE", "IN", "PROGRESS">>.  An             *)
(* Option<T> is a sequence of length 0 (None) or 1 (Some).                 *)
(***************************************************************************)
EXTENDS Integers, Sequences, FiniteSets, TLC

VARIABLES
    pc,            \* position of the run in the future chain of `run`
    stack_name,    \* Options.stack_name
    attempts,      \* invocations of its operation by the retry_if future being driven
    calls,         \* calls[op]: describe and delete requests issued so far
    sent,          \* sent[op]: the target named by the latest request of each operation
    completed,     \* the steps of the chain that have resolved Ok so far
    lastRaw,       \* raw error carried by the latest failed response (NoRaw if none)
    err,           \* the error `run` returns to `main` (NoError while there is none)
    lastResp,      \* latest describe-changeset response (NoResp before the first)
    inflightSeen,  \* describe responses so far whose status was in flight
    polled,        \* the response describe_changeset resolved with (NoResp before)
    output,        \* lines printed on stdout so far
    remote         \* the changeset as the remote service holds it

vars == <<pc, stack_name, completed, attempts, calls, sent, lastRaw, err, lastResp,
          inflightSeen, polled, output, remote>>

-----------------------------------------------------------------------------
(* Bounds of the model *)

\* describe calls and in-flight responses are counted exactly below MaxPolls;
\* the counters stay at MaxPolls from there on ("MaxPolls or more")
MaxPolls == 4

\* longest change list handed to diff_changeset on its own
MaxChanges == 3

(* Program constants *)

\* RETRIES: Strategy::exponential(100ms).with_max_retries(15).with_jitter(true)
MaxRetries == 15

CHANGESET_NAME == "cliff"

-----------------------------------------------------------------------------
(* Values *)

Ops == {"get", "create", "describe", "delete"}

\* the operations called without RETRIES.retry_if
Unretried == {"describe", "delete"}

StackNames == {"stackA", "stackB"}

None == <<>>
Some(x) == <<x>>

CREATE_PENDING == <<"CREATE", "PENDING">>
CREATE_IN_PROGRESS == <<"CREATE", "IN", "PROGRESS">>
CREATE_COMPLETE == <<"CREATE", "COMPLETE">>
FAILED == <<"FAILED">>

\* statuses the service holds while it is still computing the changeset
TransientStatuses == {CREATE_PENDING, CREATE_IN_PROGRESS}

Statuses == TransientStatuses \cup {CREATE_COMPLETE, FAILED}

\* DescribeChangeSetOutput.status: Option<String>
OptStatuses == {None} \cup {Some(s) : s \in Statuses}

\* Change { type_, resource_change { action, logical_resource_id } }
Change(t, a, id) == [type_ |-> t, action |-> a, id |-> id]

ChangeLists ==
    { <<>>,
      <<Change("Resource", "Remove", "r1"), Change("Resource", "Add", "r2")>>,
      <<Change("Parameter", "", "p1")>> }

NoTarget == [change_set_name |-> "", stack_name |-> ""]

NoResp == [status |-> Some(<<"NoResp">>), changes |-> <<>>]

Messages == {"m1", "m2"}

\* RusotoError<E>: Service(E), Unknown(BufferedHttpResponse { body }), HttpDispatch
RawError(variant, svc, parses, code, message) ==
    [variant |-> variant, svc |-> svc, parses |-> parses, code |-> code,
     message |-> message]

NoRaw == RawError("None", "", FALSE, "", "")

\* the service error variants rusoto declares for each operation
ServiceErrors(op) ==
    CASE op = "get" -> {"ChangeSetNotFound"}
      [] op = "create" -> {"AlreadyExists", "InsufficientCapabilities", "LimitExceeded"}
      [] op = "describe" -> {"ChangeSetNotFound"}
      [] op = "delete" -> {"InvalidChangeSetStatus"}

\* codes an error envelope <ErrorResponse><Error><Code/><Message/> may carry
BodyCodes == {"Throttling", "ValidationError", "LimitExceeded"}

RawErrors(op) ==
    {RawError("Service", s, FALSE, "", "m1") : s \in ServiceErrors(op)}
    \cup {RawError("Unknown", "", TRUE, c, m) : c \in BodyCodes, m \in Messages}
    \cup {RawError("Unknown", "", FALSE, "", ""), RawError("HttpDispatch", "", FALSE, "", "")}

\* enum Error
Error(kind, message, raw) == [kind |-> kind, message |-> message, raw |-> raw]

NoError == Error("None", "", NoRaw)

Min(a, b) == IF a < b THEN a ELSE b

-----------------------------------------------------------------------------
(* error.rs: classification of a raw failure *)

\* serde_xml_rs::from_reader::<_, ErrorResponse>(body) is Ok
ParsesAsErrorResponse(raw) == raw.variant = "Unknown" /\ raw.parses

\* a conversion whose match on the code ends in a Validation arm
FromGetTemplateErrorDefaultArm(raw) ==
    IF raw.variant = "Unknown"
    THEN IF ParsesAsErrorResponse(raw) /\ raw.code = "Throttling"
         THEN Error("Throttling", raw.message, NoRaw)
         ELSE IF ParsesAsErrorResponse(raw)
         THEN Error("Validation", raw.message, NoRaw)
         ELSE Error("Get", "", raw)
    ELSE Error("Get", "", raw)

\* impl From<RusotoError<GetTemplateError>> for Error
FromGetTemplateError(raw) ==
    IF raw.variant = "Unknown"
    THEN IF ParsesAsErrorResponse(raw) /\ raw.code = "Throttling"
         THEN Error("Throttling", raw.message, NoRaw)
         ELSE IF ParsesAsErrorResponse(raw) /\ raw.code = "ValidationError"
         THEN Error("Validation", raw.message, NoRaw)
         ELSE Error("Get", "", raw)
    ELSE Error("Get", "", raw)

\* a conversion with the two arms of the match on the code exchanged
FromCreateChangeSetErrorSwapped(raw) ==
    IF raw.variant = "Unknown"
    THEN IF ParsesAsErrorResponse(raw) /\ raw.code = "ValidationError"
         THEN Error("Throttling", raw.message, NoRaw)
         ELSE IF ParsesAsErrorResponse(raw) /\ raw.code = "Throttling"
         THEN Error("Validation", raw.message, NoRaw)
         ELSE Error("Create", "", raw)
    ELSE Error("Create", "", raw)

\* impl From<RusotoError<CreateChangeSetError>> for Error
FromCreateChangeSetError(raw) ==
    IF raw.variant = "Unknown"
    THEN IF ParsesAsErrorResponse(raw) /\ raw.code = "ValidationError"
         THEN Error("Validation", raw.message, NoRaw)
         ELSE IF ParsesAsErrorResponse(raw) /\ raw.code = "Throttling"
         THEN Error("Throttling", raw.message, NoRaw)
         ELSE Error("Create", "", raw)
    ELSE Error("Create", "", raw)

-----------------------------------------------------------------------------
(* main.rs: the retried calls *)

\* the condition closure of current_template
ShouldRetryGet(e) == e.kind = "Throttling"

\* a condition that matches every Error::Create instead of LimitExceeded alone
ShouldRetryCreateAnyCreate(e) == e.kind = "Create" \/ e.kind = "Throttling"

\* the condition closure of create_changeset
ShouldRetryCreate(e) ==
    \/ e.kind = "Create" /\ e.raw.variant = "Service" /\ e.raw.svc = "LimitExceeded"
    \/ e.kind = "Throttling"

\* a retrier that counts the first invocation as one of its retries
RetryAgainCountingFirst(invoked, should) == should /\ invoked < MaxRetries

\* RETRIES.retry_if: after a failed attempt the operation is invoked again when
\* the condition accepts the error and one of the MaxRetries retries is left;
\* `invoked` counts the invocations so far, the first one included
RetryAgain(invoked, should) == should /\ invoked - 1 < MaxRetries

\* a retrier that wraps the error it gives up with
GiveUpWrapped(e) == Error("RetriesExhausted", e.message, e.raw)

\* what retry_if resolves with when it gives up: the error of the failed attempt
GiveUp(e) == e

-----------------------------------------------------------------------------
(* main.rs: the poll loop and the report *)

\* str::ends_with("_" + word)
EndsWith(v, word) == Len(v) >= 2 /\ v[Len(v)] = word

\* Option::unwrap_or_default on an Option<String>
UnwrapOrDefault(opt) == IF Len(opt) = 0 THEN <<>> ELSE opt[1]

\* a test that forgets the _PENDING suffix
IsInFlightProgressOnly(status) ==
    \E i \in 1..Len(status) : EndsWith(status[i], "PROGRESS")

\* a test that takes a response without a status for one in flight
IsInFlightOrMissing(status) ==
    \/ Len(status) = 0
    \/ \E i \in 1..Len(status) :
        EndsWith(status[i], "PROGRESS") \/ EndsWith(status[i], "PENDING")

\* a test that keeps polling until the status ends with _COMPLETE
IsInFlightUntilComplete(status) ==
    \E i \in 1..Len(status) : ~EndsWith(status[i], "COMPLETE")

\* the test of describe_changeset's and_then closure
IsInFlight(status) ==
    \E i \in 1..Len(status) :
        EndsWith(status[i], "PROGRESS") \/ EndsWith(status[i], "PENDING")

\* a test that takes every status that is present for a success
IsCompleteAnyStatus(status) == Len(status) # 0

\* the test of diff_changeset
IsComplete(status) == \E i \in 1..Len(status) : EndsWith(status[i], "COMPLETE")

\* a loop that resolves with the response of the call before the last one
PollResultStale(previous, response) ==
    IF previous = NoResp THEN response ELSE previous

\* future::ok(response): the response the poll loop resolves with
PollResult(previous, response) == response

\* the bytes of the action strings a change can carry
Bytes(a) ==
    CASE a = "" -> <<>>
      [] a = "Add" -> <<65, 100, 100>>
      [] a = "Modify" -> <<77, 111, 100, 105, 102, 121>>
      [] a = "Remove" -> <<82, 101, 109, 111, 118, 101>>

\* String::cmp is Less: lexicographic on bytes
RECURSIVE BytesLess(_, _)
BytesLess(x, y) ==
    IF Len(y) = 0 THEN FALSE
    ELSE IF Len(x) = 0 THEN TRUE
    ELSE IF x[1] # y[1] THEN x[1] < y[1]
    ELSE BytesLess(Tail(x), Tail(y))

ActionLess(a, b) == BytesLess(Bytes(a.action), Bytes(b.action))

\* an insertion that puts c before the elements equal to it: an unstable sort
RECURSIVE InsertSortedBeforeEquals(_, _)
InsertSortedBeforeEquals(sorted, c) ==
    IF Len(sorted) = 0 THEN <<c>>
    ELSE IF ~ActionLess(sorted[1], c) THEN <<c>> \o sorted
    ELSE <<sorted[1]>> \o InsertSortedBeforeEquals(Tail(sorted), c)

\* insert c after every element that is not greater than it
RECURSIVE InsertSorted(_, _)
InsertSorted(sorted, c) ==
    IF Len(sorted) = 0 THEN <<c>>
    ELSE IF ActionLess(c, sorted[1]) THEN <<c>> \o sorted
    ELSE <<sorted[1]>> \o InsertSorted(Tail(sorted), c)

\* changes.sort_by(action): a stable sort
RECURSIVE SortByAction(_)
SortByAction(changes) ==
    IF Len(changes) = 0 THEN <<>>
    ELSE InsertSorted(SortByAction(SubSeq(changes, 1, Len(changes) - 1)),
                      changes[Len(changes)])

NoChange == Change("", "", "")

Line(kind, change, status) == [kind |-> kind, change |-> change, status |-> status]

\* the body of the for loop of diff_changeset
RenderLine(change) ==
    IF change.type_ = "Resource"
    THEN Line("resource", change, <<>>)
    ELSE Line("other", change, <<>>)

\* a report that filters the changes down to the resources
diff_changesetResourcesOnly(changeset) ==
    IF IsComplete(changeset.status)
    THEN LET changes == SelectSeq(SortByAction(changeset.changes),
                                  LAMBDA c : c.type_ = "Resource")
         IN  [i \in 1..Len(changes) |-> RenderLine(changes[i])]
    ELSE <<Line("status", NoChange, UnwrapOrDefault(changeset.status))>>

\* diff_changeset: the lines it prints
diff_changeset(changeset) ==
    IF IsComplete(changeset.status)
    THEN LET changes == SortByAction(changeset.changes)
         IN  [i \in 1..Len(changes) |-> RenderLine(changes[i])]
    ELSE <<Line("status", NoChange, UnwrapOrDefault(changeset.status))>>

\* println!("{}", diff) of the template diff
TemplateDiffLine == Line("template_diff", NoChange, <<>>)

-----------------------------------------------------------------------------
(* The run *)

NoRemote == [exists |-> FALSE, status |-> None, changes |-> <<>>]

Init ==
    /\ pc = "start"
    /\ stack_name \in StackNames
    /\ attempts = 0
    /\ calls = [op \in Unretried |-> 0]
    /\ sent = [op \in Ops |-> NoTarget]
    /\ completed = {}
    /\ lastRaw = NoRaw
    /\ err = NoError
    /\ lastResp = NoResp
    /\ inflightSeen = 0
    /\ polled = NoResp
    /\ output = <<>>
    /\ remote = NoRemote

\* a request of operation op leaves for the service
Issue(op, name) ==
    /\ sent' = [sent EXCEPT ![op] = [change_set_name |-> name, stack_name |-> stack_name]]
    /\ IF op \in Unretried
       THEN /\ calls' = [calls EXCEPT ![op] = Min(@ + 1, MaxPolls)]
            /\ attempts' = attempts
       ELSE /\ calls' = calls
            /\ attempts' = attempts + 1

\* a step of the and_then chain resolves Ok
Completes(step) == completed' = completed \cup {step}

\* run returns Err(e)
Abort(e) ==
    /\ pc' = "abort"
    /\ err' = e

\* let body = template_body(filename.clone())?
ReadTemplateBody ==
    /\ pc = "start"
    /\ \E ok \in BOOLEAN :
        IF ok THEN pc' = "get" /\ err' = err
        ELSE Abort(Error("Io", "", NoRaw))
    /\ UNCHANGED <<stack_name, completed, attempts, calls, sent, lastRaw, lastResp,
                   inflightSeen, polled, output, remote>>

\* current_template: cf.get_template(GetTemplateInput { stack_name, .. })
GetTemplateCall ==
    /\ pc = "get"
    /\ Issue("get", "")
    /\ pc' = "get_wait"
    /\ UNCHANGED <<stack_name, completed, lastRaw, err, lastResp, inflightSeen, polled,
                   output, remote>>

\* the get-template call succeeds: its retry_if future resolves and is dropped,
\* the chain goes on to diff_templates
GetTemplateOk ==
    /\ pc = "get_wait"
    /\ pc' = "diff"
    /\ lastRaw' = NoRaw
    /\ attempts' = 0
    /\ Completes("get")
    /\ UNCHANGED <<stack_name, calls, sent, err, lastResp, inflightSeen, polled,
                   output, remote>>

\* a chain that goes on to the template diff when get-template has given up
GetTemplateErrIgnored ==
    /\ pc = "get_wait"
    /\ \E raw \in RawErrors("get") :
        LET e == FromGetTemplateError(raw)
        IN  /\ lastRaw' = raw
            /\ pc' = IF RetryAgain(attempts, ShouldRetryGet(e)) THEN "get" ELSE "diff"
    /\ UNCHANGED <<stack_name, completed, attempts, calls, sent, err, lastResp,
                   inflightSeen, polled, output, remote>>

\* the get-template call fails: .map_err(Error::from), then the retry condition
GetTemplateErr ==
    /\ pc = "get_wait"
    /\ \E raw \in RawErrors("get") :
        LET e == FromGetTemplateError(raw)
        IN  /\ lastRaw' = raw
            /\ IF RetryAgain(attempts, ShouldRetryGet(e))
               THEN pc' = "get" /\ err' = err
               ELSE Abort(GiveUp(e))
    /\ UNCHANGED <<stack_name, completed, attempts, calls, sent, lastResp,
                   inflightSeen, polled, output, remote>>

\* diff_template: Ok(diff), or Err on an empty CLIFF_DIFFER ("Differ"), on a
\* failure of the temporary file or of the differ process ("Io"), or on output
\* that is not UTF-8 ("Utf8")
DiffOutcomes == {"Ok", "Differ", "Io", "Utf8"}

\* a diff step that returns the error of diff_template
DiffTemplatePropagating ==
    /\ pc = "diff"
    /\ \E outcome \in DiffOutcomes :
        IF outcome = "Ok"
        THEN /\ output' = Append(output, TemplateDiffLine)
             /\ pc' = "create"
             /\ err' = err
             /\ Completes("diff")
        ELSE /\ output' = output
             /\ Abort(Error(outcome, "", NoRaw))
             /\ completed' = completed
    /\ UNCHANGED <<stack_name, attempts, calls, sent, lastRaw, lastResp, inflightSeen,
                   polled, remote>>

\* diff_templates: Ok(diff) => println!("{}", diff), and _ => Ok(())
DiffTemplate ==
    /\ pc = "diff"
    /\ \E outcome \in DiffOutcomes :
        output' = IF outcome = "Ok" THEN Append(output, TemplateDiffLine) ELSE output
    /\ pc' = "create"
    /\ Completes("diff")
    /\ UNCHANGED <<stack_name, attempts, calls, sent, lastRaw, err, lastResp,
                   inflightSeen, polled, remote>>

\* a chain that starts polling as soon as the create request has left
CreateChangeSetCallUnawaited ==
    /\ pc = "create"
    /\ Issue("create", CHANGESET_NAME)
    /\ pc' = "describe"
    /\ UNCHANGED <<stack_name, completed, lastRaw, err, lastResp, inflightSeen, polled,
                   output, remote>>

\* create_changeset: cf.create_change_set(CreateChangeSetInput { .. })
CreateChangeSetCall ==
    /\ pc = "create"
    /\ Issue("create", CHANGESET_NAME)
    /\ pc' = "create_wait"
    /\ UNCHANGED <<stack_name, completed, lastRaw, err, lastResp, inflightSeen, polled,
                   output, remote>>

\* the create-changeset call succeeds: its retry_if future resolves and is dropped,
\* the service now holds the changeset
CreateChangeSetOk ==
    /\ pc = "create_wait"
    /\ pc' = "describe"
    /\ lastRaw' = NoRaw
    /\ remote' = [exists |-> TRUE, status |-> Some(CREATE_PENDING), changes |-> <<>>]
    /\ attempts' = 0
    /\ Completes("create")
    /\ UNCHANGED <<stack_name, calls, sent, err, lastResp, inflightSeen, polled,
                   output>>

\* the create-changeset call fails: .map_err(Error::from), then the retry condition
CreateChangeSetErr ==
    /\ pc = "create_wait"
    /\ \E raw \in RawErrors("create") :
        LET e == FromCreateChangeSetError(raw)
        IN  /\ lastRaw' = raw
            /\ IF RetryAgain(attempts, ShouldRetryCreate(e))
               THEN pc' = "create" /\ err' = err
               ELSE Abort(GiveUp(e))
    /\ UNCHANGED <<stack_name, completed, attempts, calls, sent, lastResp,
                   inflightSeen, polled, output, remote>>

\* describe_changeset: cf.describe_change_set(DescribeChangeSetInput { .. })
DescribeChangeSetCall ==
    /\ pc = "describe"
    /\ Issue("describe", CHANGESET_NAME)
    /\ pc' = "describe_wait"
    /\ UNCHANGED <<stack_name, completed, lastRaw, err, lastResp, inflightSeen, polled,
                   output, remote>>

\* the and_then closure of describe_changeset on a response
DescribeChangeSetOk ==
    /\ pc = "describe_wait"
    /\ LET response == [status |-> remote.status, changes |-> remote.changes]
       IN  /\ lastResp' = response
           /\ IF IsInFlight(response.status)
              THEN /\ pc' = "describe"
                   /\ inflightSeen' = Min(inflightSeen + 1, MaxPolls)
                   /\ polled' = polled
                   /\ completed' = completed
              ELSE /\ pc' = "render"
                   /\ inflightSeen' = inflightSeen
                   /\ polled' = PollResult(lastResp, response)
                   /\ Completes("describe")
    /\ UNCHANGED <<stack_name, attempts, calls, sent, lastRaw, err, output, remote>>

\* a chain that deletes the changeset when a describe call has failed
DescribeChangeSetErrCleanup ==
    /\ pc = "describe_wait"
    /\ \E raw \in RawErrors("describe") :
        /\ lastRaw' = raw
        /\ err' = Error("Describe", "", raw)
        /\ pc' = "delete"
    /\ UNCHANGED <<stack_name, completed, attempts, calls, sent, lastResp,
                   inflightSeen, polled, output, remote>>

\* a describe-changeset call fails: .map_err(Error::Describe), no retry
DescribeChangeSetErr ==
    /\ pc = "describe_wait"
    /\ \E raw \in RawErrors("describe") :
        /\ lastRaw' = raw
        /\ Abort(Error("Describe", "", raw))
    /\ UNCHANGED <<stack_name, completed, attempts, calls, sent, lastResp,
                   inflightSeen, polled, output, remote>>

\* .map(diff_changeset)
DiffChangeset ==
    /\ pc = "render"
    /\ output' = output \o diff_changeset(polled)
    /\ pc' = "delete"
    /\ Completes("render")
    /\ UNCHANGED <<stack_name, attempts, calls, sent, lastRaw, err, lastResp,
                   inflightSeen, polled, remote>>

\* a delete request that leaves the changeset name out
DeleteChangeSetCallUnnamed ==
    /\ pc = "delete"
    /\ Issue("delete", "")
    /\ pc' = "delete_wait"
    /\ UNCHANGED <<stack_name, completed, lastRaw, err, lastResp, inflightSeen, polled,
                   output, remote>>

\* delete_changset: cf.delete_change_set(DeleteChangeSetInput { .. })
DeleteChangeSetCall ==
    /\ pc = "delete"
    /\ Issue("delete", CHANGESET_NAME)
    /\ pc' = "delete_wait"
    /\ UNCHANGED <<stack_name, completed, lastRaw, err, lastResp, inflightSeen, polled,
                   output, remote>>

\* the delete-changeset call succeeds: run returns Ok(())
DeleteChangeSetOk ==
    /\ pc = "delete_wait"
    /\ pc' = "done"
    /\ remote' = NoRemote
    /\ Completes("delete")
    /\ UNCHANGED <<stack_name, attempts, calls, sent, lastRaw, err, lastResp,
                   inflightSeen, polled, output>>

\* a delete call that is sent again after a rate-limit rejection
DeleteChangeSetErrRetried ==
    /\ pc = "delete_wait"
    /\ \E raw \in RawErrors("delete") :
        /\ lastRaw' = raw
        /\ IF raw.variant = "Unknown" /\ raw.parses /\ raw.code = "Throttling"
           THEN pc' = "delete" /\ err' = err
           ELSE Abort(Error("Delete", "", raw))
    /\ UNCHANGED <<stack_name, completed, attempts, calls, sent, lastResp,
                   inflightSeen, polled, output, remote>>

\* the delete-changeset call fails: .map_err(Error::Delete), no retry
DeleteChangeSetErr ==
    /\ pc = "delete_wait"
    /\ \E raw \in RawErrors("delete") :
        /\ lastRaw' = raw
        /\ Abort(Error("Delete", "", raw))
    /\ UNCHANGED <<stack_name, completed, attempts, calls, sent, lastResp,
                   inflightSeen, polled, output, remote>>

\* the service works on the changeset: while its status is transient, the status
\* and the change list it would report can change
RemoteAdvance ==
    /\ remote.exists
    /\ remote.status \in {Some(s) : s \in TransientStatuses}
    /\ \E st \in OptStatuses, ch \in ChangeLists :
        /\ <<st, ch>> # <<remote.status, remote.changes>>
        /\ remote' = [exists |-> TRUE, status |-> st, changes |-> ch]
    /\ UNCHANGED <<pc, stack_name, completed, attempts, calls, sent, lastRaw, err,
                   lastResp, inflightSeen, polled, output>>

\* the steps of the program
Run ==
    \/ ReadTemplateBody
    \/ GetTemplateCall
    \/ GetTemplateOk
    \/ GetTemplateErr
    \/ DiffTemplate
    \/ CreateChangeSetCall
    \/ CreateChangeSetOk
    \/ CreateChangeSetErr
    \/ DescribeChangeSetCall
    \/ DescribeChangeSetOk
    \/ DescribeChangeSetErr
    \/ DiffChangeset
    \/ DeleteChangeSetCall
    \/ DeleteChangeSetOk
    \/ DeleteChangeSetErr

Next == Run \/ RemoteAdvance

Spec == Init /\ [][Next]_vars

\* block_on drives the chain to completion and the service answers every request
FairSpec == Spec /\ WF_vars(Run)

Terminated == pc \in {"done", "abort"}

-----------------------------------------------------------------------------
(* The conversions of error.rs on their own *)

\* raw failures a conversion can be handed: those of a run, envelopes with any
\* code and message (an empty message included), and bodies that do not
\* deserialize, whatever they hold: no Code, no Message, or no XML at all
ClassifyInputs(op) ==
    RawErrors(op)
    \cup {RawError("Unknown", "", TRUE, c, m) :
            c \in BodyCodes \cup {"AccessDenied"}, m \in Messages \cup {""}}
    \cup {RawError("Unknown", "", FALSE, c, m) :
            c \in BodyCodes \cup {""}, m \in Messages \cup {""}}

\* a call of a run has just failed with lastRaw
InitClassify ==
    /\ \/ pc = "from_get" /\ lastRaw \in ClassifyInputs("get")
       \/ pc = "from_create" /\ lastRaw \in ClassifyInputs("create")
    /\ stack_name \in StackNames
    /\ completed = {}
    /\ attempts = 0
    /\ calls = [op \in Unretried |-> 0]
    /\ sent = [op \in Ops |-> NoTarget]
    /\ err = NoError
    /\ lastResp = NoResp
    /\ inflightSeen = 0
    /\ polled = NoResp
    /\ output = <<>>
    /\ remote = NoRemote

\* .map_err(Error::from) in current_template
ClassifyGet ==
    /\ pc = "from_get"
    /\ err' = FromGetTemplateError(lastRaw)
    /\ pc' = "classified_get"
    /\ UNCHANGED <<stack_name, completed, attempts, calls, sent, lastRaw, lastResp,
                   inflightSeen, polled, output, remote>>

\* .map_err(Error::from) in create_changeset
ClassifyCreate ==
    /\ pc = "from_create"
    /\ err' = FromCreateChangeSetError(lastRaw)
    /\ pc' = "classified_create"
    /\ UNCHANGED <<stack_name, completed, attempts, calls, sent, lastRaw, lastResp,
                   inflightSeen, polled, output, remote>>

NextClassify == ClassifyGet \/ ClassifyCreate

SpecClassify == InitClassify /\ [][NextClassify]_vars

-----------------------------------------------------------------------------
(* diff_changeset on its own *)

\* the changes a describe response can list: resources with any action or
\* none, under two ids, and a change that is no resource
RenderChanges ==
    {Change("Resource", a, id) : a \in {"Add", "Modify", "Remove", ""}, id \in {"r1", "r2"}}
    \cup {Change("Parameter", "", "p1")}

SeqsUpTo(S, n) == UNION {[1..k -> S] : k \in 0..n}

\* the statuses the poll loop can resolve with
TerminalOptStatuses == {st \in OptStatuses : ~IsInFlight(st)}

\* the poll loop has just resolved at its first describe call
InitRender ==
    /\ pc = "render"
    /\ stack_name \in StackNames
    /\ completed = {"get", "diff", "create", "describe"}
    /\ attempts = 0
    /\ calls = [op \in Unretried |-> IF op = "describe" THEN 1 ELSE 0]
    /\ sent = [op \in Ops |->
                 IF op = "delete" THEN NoTarget
                 ELSE [change_set_name |-> IF op = "get" THEN "" ELSE CHANGESET_NAME,
                       stack_name |-> stack_name]]
    /\ lastRaw = NoRaw
    /\ err = NoError
    /\ \E st \in TerminalOptStatuses, ch \in SeqsUpTo(RenderChanges, MaxChanges) :
        /\ lastResp = [status |-> st, changes |-> ch]
        /\ polled = lastResp
        /\ remote = [exists |-> TRUE, status |-> st, changes |-> ch]
    /\ inflightSeen = 0
    /\ output = <<>>

NextRender == DiffChangeset

SpecRender == InitRender /\ [][NextRender]_vars

-----------------------------------------------------------------------------
(* Properties *)

\* the optional status ends with "_" + word
StatusEndsWith(status, word) ==
    /\ status # None
    /\ Len(status[1]) >= 2
    /\ status[1][Len(status[1])] = word

\* the suffix rule for a status in flight
InFlightStatus(status) ==
    StatusEndsWith(status, "PROGRESS") \/ StatusEndsWith(status, "PENDING")

\* a describe response has arrived and its status is terminal
TerminalObserved == lastResp # NoResp /\ ~InFlightStatus(lastResp.status)

\* this step sends a request of operation op
Sends(op) == pc # op \o "_wait" /\ pc' = op \o "_wait"

\* C1: a delete-changeset request is sent only once the poll loop has resolved:
\* the last describe response carried a terminal status (not one ending with
\* _PROGRESS or _PENDING), the loop resolved with it, and no describe call is
\* outstanding; while the delete call is outstanding none is either.
C1_DeleteOnlyAfterPollResolved ==
    [][Sends("delete") =>
          /\ TerminalObserved
          /\ polled # NoResp
          /\ ~InFlightStatus(polled.status)
          /\ pc \notin {"describe", "describe_wait"}
          /\ pc' # "describe_wait"]_vars

C1_Witness ==
    /\ pc = "delete_wait"
    /\ sent["delete"] # NoTarget
    /\ inflightSeen = 2
    /\ calls["describe"] = 3

\* C2: once a describe response has carried a terminal status, no further
\* describe request is sent and the observed response stays the last one.
C2_NoPollAfterTerminal ==
    [][TerminalObserved =>
          /\ ~Sends("describe")
          /\ pc' \notin {"describe", "describe_wait"}
          /\ lastResp' = lastResp]_vars

C2_Witness ==
    /\ pc = "done"
    /\ lastResp.status = Some(FAILED)
    /\ calls["describe"] = 2

\* C3: when the poll loop resolves after k responses in flight (k + 1 below
\* MaxPolls, where the counters are exact), exactly k + 1 describe requests
\* were sent and the loop resolved with the status and the change list of the
\* last response, which is terminal.
C3_PollResolvesWithLastResponse ==
    (polled # NoResp /\ calls["describe"] < MaxPolls) =>
        /\ calls["describe"] = inflightSeen + 1
        /\ polled.status = lastResp.status
        /\ polled.changes = lastResp.changes
        /\ ~InFlightStatus(polled.status)

C3_Witness ==
    /\ pc = "render"
    /\ inflightSeen = 2
    /\ calls["describe"] = 3
    /\ polled.status = Some(CREATE_COMPLETE)
    /\ Len(polled.changes) = 2

\* the error came out of one of the two retried calls
FromRetriedCall == err.kind \in {"Throttling", "Validation", "Get", "Create"}

IsThrottlingBody(raw) == raw.variant = "Unknown" /\ raw.parses /\ raw.code = "Throttling"

\* the raw failure is the structured LimitExceeded error of the service
IsServiceLimitExceeded(raw) == raw.variant = "Service" /\ raw.svc = "LimitExceeded"

\* C5: a failed get-template call is invoked again only after a Throttling
\* error, a failed create-changeset call only after a Throttling error or the
\* service's LimitExceeded; after any other failure the call is not invoked
\* again and the run aborts at once with the classified error.
C5_RetryPerCallSite ==
    [][/\ (pc = "get_wait" /\ pc' \in {"get", "abort"}) =>
            IF IsThrottlingBody(lastRaw')
            THEN pc' = "abort" => attempts = MaxRetries + 1
            ELSE /\ pc' = "abort"
                 /\ err' = FromGetTemplateError(lastRaw')
                 /\ err'.kind \in {"Validation", "Get"}
       /\ (pc = "create_wait" /\ pc' \in {"create", "abort"}) =>
            IF IsThrottlingBody(lastRaw') \/ IsServiceLimitExceeded(lastRaw')
            THEN pc' = "abort" => attempts = MaxRetries + 1
            ELSE /\ pc' = "abort"
                 /\ err' = FromCreateChangeSetError(lastRaw')
                 /\ err'.kind \in {"Validation", "Create"}]_vars

C5_Witness ==
    /\ pc = "abort"
    /\ attempts = 1
    /\ err.kind = "Create"
    /\ err.raw.variant = "Service"
    /\ err.raw.svc = "AlreadyExists"

\* C6: a failed describe or delete call is never sent again, whatever the
\* failure: the run aborts at once with that failure, an aborted run sends
\* nothing more, and at most one delete request is sent in a run.
C6_DescribeDeleteNotRetried ==
    /\ [](calls["delete"] <= 1)
    /\ [][(pc \in {"describe_wait", "delete_wait"} /\ lastRaw' # NoRaw) =>
            /\ pc' = "abort"
            /\ err'.kind = (IF pc = "describe_wait" THEN "Describe" ELSE "Delete")
            /\ err'.raw = lastRaw'
            /\ calls' = calls
            /\ sent' = sent]_vars
    /\ [][pc = "abort" => UNCHANGED <<pc, err, attempts, calls, sent>>]_vars

C6_Witness ==
    /\ pc = "abort"
    /\ err.kind = "Delete"
    /\ IsThrottlingBody(err.raw)
    /\ calls["delete"] = 1

\* C7: when a retried call gives up, on an exhausted cap or on an error its
\* condition rejects, the run returns the classified error of the last
\* attempt: same kind, same message, same raw error, nothing around it.
C7_LastErrorUnchanged ==
    (pc = "abort" /\ err.kind \notin {"Io", "Describe", "Delete"}) =>
        /\ err = IF sent["create"] = NoTarget
                 THEN FromGetTemplateError(lastRaw)
                 ELSE FromCreateChangeSetError(lastRaw)
        /\ FromRetriedCall
        /\ err.kind \in {"Throttling", "Validation"} =>
               err.message = lastRaw.message /\ IsThrottlingBody(lastRaw) = (err.kind = "Throttling")
        /\ err.kind \in {"Get", "Create"} => err.raw = lastRaw

C7_Witness ==
    /\ pc = "abort"
    /\ attempts = MaxRetries + 1
    /\ err = Error("Throttling", "m2", NoRaw)
    /\ sent["create"] # NoTarget

\* the lines of the report of the last describe response are the last lines
\* of the output
ReportRendered ==
    LET n == Len(output)
        k == Len(lastResp.changes)
    IN  IF StatusEndsWith(lastResp.status, "COMPLETE")
        THEN /\ n >= k
             /\ \A i \in 1..k : output[n - k + i].kind \in {"resource", "other"}
             /\ \A i \in 1..k : \E j \in 1..k : output[n - k + j].change = lastResp.changes[i]
        ELSE /\ n >= 1
             /\ output[n].kind = "status"

\* C8: when get-template, create-changeset and every describe call have
\* succeeded, exactly one delete request is sent, it names the changeset name
\* and the stack name the create request named, and the report of the last
\* response is on the output before it is sent.
C8_OneDeleteAfterReport ==
    /\ sent["delete"] # NoTarget =>
        /\ calls["delete"] = 1
        /\ sent["delete"] = sent["create"]
        /\ sent["delete"] = [change_set_name |-> "cliff", stack_name |-> stack_name]
        /\ TerminalObserved
        /\ ReportRendered
    /\ pc \in {"delete_wait", "done"} => sent["delete"] # NoTarget
    /\ pc = "done" => ~remote.exists

C8_Witness ==
    /\ pc = "done"
    /\ sent["delete"] = [change_set_name |-> "cliff", stack_name |-> "stackB"]
    /\ lastResp.status = Some(CREATE_COMPLETE)
    /\ Len(output) = 3

\* C9: when a describe call fails after create-changeset has succeeded, the
\* run aborts, no delete request is ever sent and the service keeps the
\* changeset.
C9_NoCleanupOnAbort ==
    err.kind = "Describe" =>
        /\ pc = "abort"
        /\ sent["create"] # NoTarget
        /\ sent["delete"] = NoTarget
        /\ calls["delete"] = 0
        /\ remote.exists

C9_Witness ==
    /\ pc = "abort"
    /\ err.kind = "Describe"
    /\ inflightSeen >= 1
    /\ remote.exists
    /\ calls["delete"] = 0

\* the service holds the changeset with a status in flight
RemoteTransient ==
    remote.exists /\ remote.status \in {Some(st) : st \in TransientStatuses}

\* the run is past the poll loop
PastPolling == pc \in {"render", "delete", "delete_wait", "done"}

\* C10: a run in which the service does not keep the changeset in flight
\* forever terminates (done or abort), the retried calls being invoked at most
\* MaxRetries + 1 times each; a run in which the changeset never leaves the
\* in-flight statuses never gets past the poll loop and never sends a delete.
C10_TerminatesUnlessInFlightForever ==
    /\ (<>[](~RemoteTransient)) => <>Terminated
    /\ [](attempts <= MaxRetries + 1)
    /\ ([](remote.exists => RemoteTransient)) => [](~PastPolling /\ sent["delete"] = NoTarget)

C10_Witness ==
    /\ pc = "describe"
    /\ RemoteTransient
    /\ inflightSeen = MaxPolls
    /\ calls["describe"] = MaxPolls

\* the raw failure carries a body that is an error envelope {code, message}
IsEnvelope(raw) == raw.variant = "Unknown" /\ raw.parses

\* a conversion has produced err from lastRaw
Classified == pc \in {"classified_get", "classified_create"}

\* C11: for both operations, an envelope with code "Throttling" converts to
\* Throttling(message) and one with code "ValidationError" to
\* Validation(message), the message being that of the envelope.
C11_EnvelopeCodesClassified ==
    (Classified /\ IsEnvelope(lastRaw)) =>
        /\ lastRaw.code = "Throttling" =>
               err = [kind |-> "Throttling", message |-> lastRaw.message, raw |-> NoRaw]
        /\ lastRaw.code = "ValidationError" =>
               err = [kind |-> "Validation", message |-> lastRaw.message, raw |-> NoRaw]

C11_Witness ==
    /\ pc = "classified_create"
    /\ lastRaw = RawError("Unknown", "", TRUE, "Throttling", "m2")
    /\ err.kind = "Throttling"
    /\ err.message = "m2"

\* C12: a structured service error, an envelope with another code, a body
\* with no code or that does not parse, and a transport error convert to
\* Error::Get or Error::Create, after the operation, holding the raw error as
\* it was; the conversion always yields an error.
C12_OtherFailuresKeepRaw ==
    /\ pc \in {"from_get", "from_create"} => ENABLED NextClassify
    /\ (Classified /\ ~(IsEnvelope(lastRaw)
                        /\ lastRaw.code \in {"Throttling", "ValidationError"})) =>
        /\ err.kind = (IF pc = "classified_get" THEN "Get" ELSE "Create")
        /\ err.kind \notin {"Throttling", "Validation"}
        /\ err.raw = lastRaw

C12_Witness ==
    /\ pc = "classified_get"
    /\ lastRaw = RawError("Unknown", "", FALSE, "Throttling", "")
    /\ err.kind = "Get"
    /\ err.raw = lastRaw

\* the change records of the lines on the output, in order
OutputChanges == [i \in 1..Len(output) |-> output[i].change]

\* the order of the action strings: "" < "Add" < "Modify" < "Remove"
ActionRank(a) ==
    CASE a = "" -> 0
      [] a = "Add" -> 1
      [] a = "Modify" -> 2
      [] a = "Remove" -> 3

\* the records of a list that carry action a, in the order of the list
WithAction(changes, a) == SelectSeq(changes, LAMBDA c : c.action = a)

\* diff_changeset has run on a response whose status ends with _COMPLETE
RenderedComplete == pc = "delete" /\ StatusEndsWith(polled.status, "COMPLETE")

\* C13: the lines of a succeeded changeset are ordered non-decreasingly by
\* the action string (Add before Modify before Remove), and for each action
\* they hold exactly the input records of that action in their input order:
\* a permutation of the input that keeps equal actions in place.
C13_SortedStablePermutation ==
    RenderedComplete =>
        /\ \A i, j \in 1..Len(output) :
            i < j => ActionRank(output[i].change.action)
                        <= ActionRank(output[j].change.action)
        /\ \A a \in {"", "Add", "Modify", "Remove"} :
            WithAction(OutputChanges, a) = WithAction(polled.changes, a)

C13_Witness ==
    /\ RenderedComplete
    /\ polled.changes = <<Change("Resource", "Remove", "r1"), Change("Resource", "Add", "r1"),
                          Change("Resource", "Remove", "r2")>>
    /\ OutputChanges = <<Change("Resource", "Add", "r1"), Change("Resource", "Remove", "r1"),
                         Change("Resource", "Remove", "r2")>>

\* how often record c occurs in a list
Occurrences(changes, c) == Cardinality({i \in 1..Len(changes) : changes[i] = c})

\* C14: the report of a succeeded changeset has one line per change record:
\* a resource line for a record of kind "Resource", the fallback line for any
\* other record; every record is on as many lines as it occurs in the input.
C14_OneLinePerRecord ==
    RenderedComplete =>
        /\ Len(output) = Len(polled.changes)
        /\ \A i \in 1..Len(output) :
            output[i].kind =
                IF output[i].change.type_ = "Resource" THEN "resource" ELSE "other"
        /\ \A c \in RenderChanges :
            Occurrences(OutputChanges, c) = Occurrences(polled.changes, c)

C14_Witness ==
    /\ RenderedComplete
    /\ polled.changes = <<Change("Resource", "Add", "r1"), Change("Parameter", "", "p1")>>
    /\ output[1].kind = "other"
    /\ output[2].kind = "resource"

\* the lines of the output that render a change record
ChangeLines == {i \in 1..Len(output) : output[i].kind \in {"resource", "other"}}

\* diff_changeset has run in this run
AfterReport == pc \in {"delete", "delete_wait", "done"} \/ (pc = "abort" /\ err.kind = "Delete")

\* the poll loop resolved with a status that does not end with _COMPLETE
NonSuccessResolved == polled # NoResp /\ ~StatusEndsWith(polled.status, "COMPLETE")

\* C15: when the poll loop resolves with a terminal status that is no success,
\* the run does not abort on it: the status is printed as it is, no change
\* record is printed, the delete request is sent, and the run ends Ok when the
\* delete succeeds (it aborts only on a failure of the delete call).
C15_NonSuccessIsReported ==
    NonSuccessResolved =>
        /\ pc = "render" \/ AfterReport
        /\ pc = "render" => ENABLED DiffChangeset
        /\ AfterReport =>
            /\ ChangeLines = {}
            /\ Len(output) >= 1
            /\ output[Len(output)].kind = "status"
            /\ polled.status # None => output[Len(output)].status = polled.status[1]
        /\ pc = "delete" => ENABLED DeleteChangeSetCall
        /\ pc \in {"delete_wait", "done"} => sent["delete"] # NoTarget
        /\ pc = "delete_wait" => ENABLED DeleteChangeSetOk
        /\ pc = "done" => err = NoError /\ "delete" \in completed

C15_Witness ==
    /\ pc = "done"
    /\ polled.status = Some(FAILED)
    /\ Len(polled.changes) = 2
    /\ output[Len(output)] = [kind |-> "status", change |-> NoChange, status |-> FAILED]

\* C16: a describe request is sent only when the get-template call and the
\* create-changeset call have both resolved Ok, the service holding the
\* changeset.
C16_DescribeAfterGetAndCreate ==
    /\ [][Sends("describe") => {"get", "create"} \subseteq completed /\ remote.exists]_vars
    /\ [](sent["describe"] # NoTarget => {"get", "create"} \subseteq completed)

C16_Witness ==
    /\ pc = "describe_wait"
    /\ calls["describe"] = 1
    /\ completed = {"get", "diff", "create"}

\* C17: the first create request is sent only when get-template has resolved
\* Ok and the template diff step has run; a run that aborts because
\* get-template failed has sent no create request and leaves no changeset.
C17_CreateAfterGetAndDiff ==
    /\ [][Sends("create") => {"get", "diff"} \subseteq completed]_vars
    /\ [](sent["create"] # NoTarget => {"get", "diff"} \subseteq completed)
    /\ []((pc = "abort" /\ "get" \notin completed) =>
            /\ sent["create"] = NoTarget
            /\ sent["describe"] = NoTarget
            /\ sent["delete"] = NoTarget
            /\ ~remote.exists)

C17_Witness ==
    /\ pc = "abort"
    /\ sent["get"] # NoTarget
    /\ attempts = MaxRetries + 1
    /\ completed = {}
    /\ sent["create"] = NoTarget
    /\ ~remote.exists

\* C18: a describe response without a status ends the poll loop: the loop
\* resolves with it, the report prints no change record but the status line
\* with an empty status, and the delete request is sent.
C18_MissingStatusIsTerminal ==
    (lastResp # NoResp /\ lastResp.status = None) =>
        /\ pc \notin {"describe", "describe_wait"}
        /\ polled = lastResp
        /\ AfterReport =>
            /\ ChangeLines = {}
            /\ output[Len(output)] = [kind |-> "status", change |-> NoChange, status |-> <<>>]
        /\ pc = "delete" => ENABLED DeleteChangeSetCall
        /\ pc \in {"delete_wait", "done"} => sent["delete"] # NoTarget

C18_Witness ==
    /\ pc = "done"
    /\ lastResp.status = None
    /\ Len(lastResp.changes) = 2
    /\ sent["delete"] # NoTarget

\* the output holds the template diff
HasTemplateDiff == \E i \in 1..Len(output) : output[i].kind = "template_diff"

\* C19: whatever diff_template returns, the run goes on to create-changeset
\* with no error recorded and nothing else changed; a failure only leaves the
\* template diff off the output, and no run ever returns an error of the diff
\* step.
C19_DiffFailureIgnored ==
    /\ [][(pc = "diff" /\ pc' # "diff") =>
            /\ pc' = "create"
            /\ err' = NoError
            /\ "diff" \in completed'
            /\ output' \in {output, Append(output, TemplateDiffLine)}
            /\ UNCHANGED <<stack_name, attempts, calls, sent, lastRaw, lastResp,
                           inflightSeen, polled, remote>>]_vars
    /\ [](err.kind \notin {"Differ", "Utf8"})
    /\ [](err.kind = "Io" => completed = {})
    /\ []((pc # "diff" /\ "get" \in completed) => "diff" \in completed)

C19_Witness ==
    /\ pc = "done"
    /\ "diff" \in completed
    /\ ~HasTemplateDiff
    /\ lastResp.status = Some(CREATE_COMPLETE)
    /\ Len(output) = 2

====
